---- MODULE Spec2Model ----
(***************************************************************************)
(* Model of mirtorch/linear/linearmaps.py: the LinearMap base class, its   *)
(* arithmetic overloads and the combinators Add, Multiply, Matmul,         *)
(* ConjTranspose, BlockDiagonal and Kron.                                  *)
(*                                                                         *)
(* Nodes live in a heap (a sequence of records; a node's identity is its   *)
(* index), children are held by reference.  A tensor is a shape with its   *)
(* flat data, trailing axis slowest, so that x[..., k] is a contiguous     *)
(* block.  Python exceptions are result statuses carrying the exception's  *)
(* class name.  Every evaluation returns the calls it made, in order.      *)
(***************************************************************************)
EXTENDS Integers, Sequences, FiniteSets, TLC

VARIABLES heap, last

vars == <<heap, last>>

\* Largest number of nodes the heap holds.
MaxNodes == 5
\* Largest Kron factor n and largest BlockDiagonal list length.
MaxRep == 2

(***************************************************************************)
(* Python values that reach the operators: numbers, strings, lists, None,  *)
(* LinearMap references and torch tensors.                                 *)
(***************************************************************************)
PyObj(kind, val, shape, data, device) ==
    [kind |-> kind, val |-> val, shape |-> shape, data |-> data, device |-> device]

PyInt(v) == PyObj("int", v, <<>>, <<>>, "")
PyStr == PyObj("str", 0, <<>>, <<>>, "")
PyList == PyObj("list", 0, <<>>, <<>>, "")
PyNone == PyObj("NoneType", 0, <<>>, <<>>, "")
MapRef(i) == PyObj("LinearMap", i, <<>>, <<>>, "")
Tensor(shape, data) == PyObj("Tensor", 0, shape, data, "cpu")
\* a leaf operator's own state: its matrix, held as a tensor or inside a module
LeafOp(kind, rows) == PyObj(kind, 0, <<Len(rows), Len(rows[1])>>, rows, "cpu")
Absent == PyObj("absent", 0, <<>>, <<>>, "")

(***************************************************************************)
(* Tensors as they are computed with: shape and flat data.                 *)
(***************************************************************************)
RECURSIVE Numel(_)
Numel(shape) == IF shape = <<>> THEN 1 ELSE shape[1] * Numel(Tail(shape))

Front(s) == SubSeq(s, 1, Len(s) - 1)

Arr(shape, data) == [shape |-> shape, data |-> data]

NoArr == Arr(<<>>, <<>>)

\* torch.zeros(shape, ...)
Zeros(shape) == Arr(shape, [i \in 1..Numel(shape) |-> 0])

\* x[..., k], k counted from 0; the caller has checked that it exists
Slice(x, k) ==
    LET m == Numel(Front(x.shape))
    IN Arr(Front(x.shape), SubSeq(x.data, k * m + 1, (k + 1) * m))

\* whether x[..., k] exists: x has an axis and k is within the trailing one
HasSlice(x, k) == x.shape # <<>> /\ k < x.shape[Len(x.shape)]

\* out[..., k] = v, for v of the slice's shape
SetSlice(out, k, v) ==
    LET m == Numel(Front(out.shape))
    IN Arr(out.shape,
           [i \in 1..Len(out.data) |->
               IF i > k * m /\ i <= (k + 1) * m THEN v.data[i - k * m] ELSE out.data[i]])

\* x + y for tensors of one shape
TAdd(x, y) == Arr(x.shape, [i \in 1..Len(x.data) |-> x.data[i] + y.data[i]])

\* x * a for a Python number or a 0-dimensional tensor a
ScalarOf(a) == IF a.kind = "Tensor" THEN a.data[1] ELSE a.val

TScale(x, a) == Arr(x.shape, [i \in 1..Len(x.data) |-> x.data[i] * ScalarOf(a)])

RECURSIVE Dot(_, _)
Dot(u, v) == IF u = <<>> THEN 0 ELSE u[1] * v[1] + Dot(Tail(u), Tail(v))

\* rows * x and rows^T * x for a leaf's matrix
MatVec(rows, x) == [i \in 1..Len(rows) |-> Dot(rows[i], x)]

Transpose(rows) == [j \in 1..Len(rows[1]) |-> [i \in 1..Len(rows) |-> rows[i][j]]]

(***************************************************************************)
(* Results of a call: the exception raised ("ok" for a return), the value  *)
(* returned, the calls made, and for a failed shape assertion the two      *)
(* shapes its message prints.                                              *)
(***************************************************************************)
Ev(nd, m, d) == [node |-> nd.id, kind |-> nd.kind, m |-> m, depth |-> d]

NoMsg == [actual |-> <<>>, reported |-> <<>>]

Ok(v, tr) == [st |-> "ok", val |-> v, tr |-> tr, msg |-> NoMsg]

Raise(e, tr) == [st |-> e, val |-> NoArr, tr |-> tr, msg |-> NoMsg]

Pre(tr, r) == [r EXCEPT !.tr = tr \o r.tr]

(***************************************************************************)
(* Nodes.                                                                  *)
(***************************************************************************)
\* A and B are sequences of heap indices: one child each, or for
\* BlockDiagonal the list A; an attribute a node does not have is empty,
\* Absent or 0
Node(id, kind, size_in, size_out, A, B, a, n, op) ==
    [id |-> id, kind |-> kind, size_in |-> size_in, size_out |-> size_out,
     A |-> A, B |-> B, a |-> a, n |-> n, op |-> op]

\* LinearMap.__init__ reached from a leaf operator's constructor; op is the
\* operator's own state (a tensor or a module), Absent for a bare LinearMap
Leaf(id, size_in, size_out, op) ==
    Node(id, "Leaf", size_in, size_out, <<>>, <<>>, Absent, 0, op)

(***************************************************************************)
(* Application.  apply, adjoint, applyRule and adjointRule resolve the     *)
(* method on the node's class; d is the depth of the call.                 *)
(***************************************************************************)
RECURSIVE apply(_, _, _, _), adjoint(_, _, _, _)

\* LinearMap.__call__
LinearMap_call(h, nd, x, d) == apply(h, nd, x, d)

\* ConjTranspose.__init__ keeping A's sizes as they are
ConjTranspose_init_unswapped(id, A) ==
    Node(id, "ConjTranspose", A.size_in, A.size_out, <<A.id>>, <<>>, Absent, 0, Absent)

\* ConjTranspose.__init__
ConjTranspose_init(id, A) ==
    Node(id, "ConjTranspose", A.size_out, A.size_in, <<A.id>>, <<>>, Absent, 0, Absent)

\* LinearMap.H: a new ConjTranspose around self, held by the caller alone
H(nd) == ConjTranspose_init(0, nd)

\* a leaf operator's _apply and _apply_adjoint; LinearMap's own raise
Leaf_apply(h, nd, x, d) ==
    IF nd.op.kind = "absent" THEN Raise("NotImplementedError", <<>>)
    ELSE Ok(Arr(nd.size_out, MatVec(nd.op.data, x.data)), <<>>)

Leaf_apply_adjoint(h, nd, x, d) ==
    IF nd.op.kind = "absent" THEN Raise("NotImplementedError", <<>>)
    ELSE Ok(Arr(nd.size_in, MatVec(Transpose(nd.op.data), x.data)), <<>>)

\* Add._apply: self.A(x) + self.B(x)
Add_apply(h, nd, x, d) ==
    LET ra == LinearMap_call(h, h[nd.A[1]], x, d + 1)
    IN IF ra.st # "ok" THEN ra
       ELSE LET rb == LinearMap_call(h, h[nd.B[1]], x, d + 1)
            IN IF rb.st # "ok" THEN Pre(ra.tr, rb)
               ELSE Ok(TAdd(ra.val, rb.val), ra.tr \o rb.tr)

\* Add._apply_adjoint: self.A.H(x) + self.B.H(x)
Add_apply_adjoint(h, nd, x, d) ==
    LET ra == LinearMap_call(h, H(h[nd.A[1]]), x, d + 1)
    IN IF ra.st # "ok" THEN ra
       ELSE LET rb == LinearMap_call(h, H(h[nd.B[1]]), x, d + 1)
            IN IF rb.st # "ok" THEN Pre(ra.tr, rb)
               ELSE Ok(TAdd(ra.val, rb.val), ra.tr \o rb.tr)

\* x * self.a: a tensor times a str, a list or None is a TypeError
CanScale(a) == a.kind = "int" \/ (a.kind = "Tensor" /\ a.shape = <<>>)

\* Multiply._apply: ax = x * self.a; self.A(ax)
Multiply_apply(h, nd, x, d) ==
    IF ~CanScale(nd.a) THEN Raise("TypeError", <<>>)
    ELSE LinearMap_call(h, h[nd.A[1]], TScale(x, nd.a), d + 1)

\* Multiply._apply_adjoint: ax = x * self.a; self.A.H(ax)
Multiply_apply_adjoint(h, nd, x, d) ==
    IF ~CanScale(nd.a) THEN Raise("TypeError", <<>>)
    ELSE LinearMap_call(h, H(h[nd.A[1]]), TScale(x, nd.a), d + 1)

\* Matmul._apply: self.A(self.B(x))
Matmul_apply(h, nd, x, d) ==
    LET rb == LinearMap_call(h, h[nd.B[1]], x, d + 1)
    IN IF rb.st # "ok" THEN rb
       ELSE Pre(rb.tr, LinearMap_call(h, h[nd.A[1]], rb.val, d + 1))

\* Matmul._apply_adjoint in the order of _apply: self.A.H(self.B.H(x))
Matmul_apply_adjoint_unreversed(h, nd, x, d) ==
    LET rb == LinearMap_call(h, H(h[nd.B[1]]), x, d + 1)
    IN IF rb.st # "ok" THEN rb
       ELSE Pre(rb.tr, LinearMap_call(h, H(h[nd.A[1]]), rb.val, d + 1))

\* Matmul._apply_adjoint: self.B.H(self.A.H(x))
Matmul_apply_adjoint(h, nd, x, d) ==
    LET ra == LinearMap_call(h, H(h[nd.A[1]]), x, d + 1)
    IN IF ra.st # "ok" THEN ra
       ELSE Pre(ra.tr, LinearMap_call(h, H(h[nd.B[1]]), ra.val, d + 1))

\* ConjTranspose._apply: self.A.adjoint(x)
ConjTranspose_apply(h, nd, x, d) == adjoint(h, h[nd.A[1]], x, d + 1)

\* ConjTranspose._apply_adjoint calling the adjoint as _apply does
ConjTranspose_apply_adjoint_again(h, nd, x, d) == adjoint(h, h[nd.A[1]], x, d + 1)

\* ConjTranspose._apply_adjoint: self.A.apply(x)
ConjTranspose_apply_adjoint(h, nd, x, d) == apply(h, h[nd.A[1]], x, d + 1)

\* the loop of BlockDiagonal._apply with self.A[0] applied to every slice
RECURSIVE BlockDiagonal_apply_loop_first(_, _, _, _, _, _, _, _)
BlockDiagonal_apply_loop_first(h, nd, x, d, nz, k, out, tr) ==
    IF k >= nz THEN Ok(out, tr)
    ELSE LET r == apply(h, h[nd.A[1]], Slice(x, k), d + 1)
         IN IF r.st # "ok" THEN Pre(tr, r)
            ELSE BlockDiagonal_apply_loop_first(h, nd, x, d, nz, k + 1,
                                                SetSlice(out, k, r.val), tr \o r.tr)

\* the loop of BlockDiagonal._apply from k on: out[..., k] = self.A[k].apply(x[..., k])
RECURSIVE BlockDiagonal_apply_loop(_, _, _, _, _, _, _, _)
BlockDiagonal_apply_loop(h, nd, x, d, nz, k, out, tr) ==
    IF k >= nz THEN Ok(out, tr)
    ELSE LET r == apply(h, h[nd.A[k + 1]], Slice(x, k), d + 1)
         IN IF r.st # "ok" THEN Pre(tr, r)
            ELSE BlockDiagonal_apply_loop(h, nd, x, d, nz, k + 1,
                                          SetSlice(out, k, r.val), tr \o r.tr)

\* BlockDiagonal._apply
BlockDiagonal_apply(h, nd, x, d) ==
    BlockDiagonal_apply_loop(h, nd, x, d, nd.size_out[Len(nd.size_out)], 0,
                             Zeros(nd.size_out), <<>>)

\* the loop of BlockDiagonal._apply_adjoint from k on
RECURSIVE BlockDiagonal_adjoint_loop(_, _, _, _, _, _, _, _)
BlockDiagonal_adjoint_loop(h, nd, x, d, nz, k, out, tr) ==
    IF k >= nz THEN Ok(out, tr)
    ELSE LET r == adjoint(h, h[nd.A[k + 1]], Slice(x, k), d + 1)
         IN IF r.st # "ok" THEN Pre(tr, r)
            ELSE BlockDiagonal_adjoint_loop(h, nd, x, d, nz, k + 1,
                                            SetSlice(out, k, r.val), tr \o r.tr)

\* BlockDiagonal._apply_adjoint
BlockDiagonal_apply_adjoint(h, nd, x, d) ==
    BlockDiagonal_adjoint_loop(h, nd, x, d, nd.size_in[Len(nd.size_in)], 0,
                               Zeros(nd.size_in), <<>>)

\* the loop of Kron.apply from k on; x was not checked, so x[..., k] may not exist
RECURSIVE Kron_apply_loop(_, _, _, _, _, _, _)
Kron_apply_loop(h, nd, x, d, k, out, tr) ==
    IF k >= nd.n THEN Ok(out, tr)
    ELSE IF ~HasSlice(x, k) THEN Raise("IndexError", tr)
    ELSE LET r == apply(h, h[nd.A[1]], Slice(x, k), d + 1)
         IN IF r.st # "ok" THEN Pre(tr, r)
            ELSE Kron_apply_loop(h, nd, x, d, k + 1, SetSlice(out, k, r.val), tr \o r.tr)

\* Kron.apply, which overrides LinearMap.apply
Kron_apply(h, nd, x, d) ==
    Pre(<<Ev(nd, "apply", d)>>, Kron_apply_loop(h, nd, x, d, 0, Zeros(nd.size_out), <<>>))

\* the loop of Kron._apply_adjoint from k on
RECURSIVE Kron_adjoint_loop(_, _, _, _, _, _, _)
Kron_adjoint_loop(h, nd, x, d, k, out, tr) ==
    IF k >= nd.n THEN Ok(out, tr)
    ELSE LET r == adjoint(h, h[nd.A[1]], Slice(x, k), d + 1)
         IN IF r.st # "ok" THEN Pre(tr, r)
            ELSE Kron_adjoint_loop(h, nd, x, d, k + 1, SetSlice(out, k, r.val), tr \o r.tr)

\* Kron._apply_adjoint
Kron_apply_adjoint(h, nd, x, d) == Kron_adjoint_loop(h, nd, x, d, 0, Zeros(nd.size_in), <<>>)

\* self._apply(x) on the node's class; Kron defines none and inherits LinearMap's
applyRule(h, nd, x, d) ==
    Pre(<<Ev(nd, "_apply", d)>>,
        CASE nd.kind = "Leaf" -> Leaf_apply(h, nd, x, d)
          [] nd.kind = "Add" -> Add_apply(h, nd, x, d)
          [] nd.kind = "Multiply" -> Multiply_apply(h, nd, x, d)
          [] nd.kind = "Matmul" -> Matmul_apply(h, nd, x, d)
          [] nd.kind = "ConjTranspose" -> ConjTranspose_apply(h, nd, x, d)
          [] nd.kind = "BlockDiagonal" -> BlockDiagonal_apply(h, nd, x, d)
          [] OTHER -> Raise("NotImplementedError", <<>>))

\* self._apply_adjoint(x) on the node's class
adjointRule(h, nd, x, d) ==
    Pre(<<Ev(nd, "_apply_adjoint", d)>>,
        CASE nd.kind = "Leaf" -> Leaf_apply_adjoint(h, nd, x, d)
          [] nd.kind = "Add" -> Add_apply_adjoint(h, nd, x, d)
          [] nd.kind = "Multiply" -> Multiply_apply_adjoint(h, nd, x, d)
          [] nd.kind = "Matmul" -> Matmul_apply_adjoint(h, nd, x, d)
          [] nd.kind = "ConjTranspose" -> ConjTranspose_apply_adjoint(h, nd, x, d)
          [] nd.kind = "BlockDiagonal" -> BlockDiagonal_apply_adjoint(h, nd, x, d)
          [] nd.kind = "Kron" -> Kron_apply_adjoint(h, nd, x, d)
          [] OTHER -> Raise("NotImplementedError", <<>>))

\* the assertion of LinearMap.apply
ApplyShapeOk(nd, x) == x.shape = nd.size_in

\* LinearMap.apply
LinearMap_apply(h, nd, x, d) ==
    IF ~ApplyShapeOk(nd, x)
    THEN [Raise("AssertionError", <<Ev(nd, "apply", d)>>)
             EXCEPT !.msg = [actual |-> x.shape, reported |-> nd.size_in]]
    ELSE Pre(<<Ev(nd, "apply", d)>>, applyRule(h, nd, x, d + 1))

\* the assertion of LinearMap.adjoint
AdjointShapeOk(nd, x) == x.shape = nd.size_out

\* the shape the message of LinearMap.adjoint's assertion prints beside x.shape
AdjointReported(nd) == nd.size_in

\* LinearMap.adjoint
LinearMap_adjoint(h, nd, x, d) ==
    IF ~AdjointShapeOk(nd, x)
    THEN [Raise("AssertionError", <<Ev(nd, "adjoint", d)>>)
             EXCEPT !.msg = [actual |-> x.shape, reported |-> AdjointReported(nd)]]
    ELSE Pre(<<Ev(nd, "adjoint", d)>>, adjointRule(h, nd, x, d + 1))

apply(h, nd, x, d) ==
    IF nd.kind = "Kron" THEN Kron_apply(h, nd, x, d) ELSE LinearMap_apply(h, nd, x, d)

adjoint(h, nd, x, d) == LinearMap_adjoint(h, nd, x, d)

(***************************************************************************)
(* Construction.  A constructor returns the exception it raised, the heap  *)
(* it leaves and the reference it returns.                                 *)
(***************************************************************************)
Built(h, nd) == [st |-> "ok", heap |-> Append(h, nd), ret |-> MapRef(nd.id)]

Failed(e, h) == [st |-> e, heap |-> h, ret |-> Absent]

\* Add.__init__ without the assertion on size_out
Add_init_unchecked_out(h, A, B) ==
    IF B.kind # "LinearMap" THEN Failed("AttributeError", h)
    ELSE IF h[A].size_in # h[B.val].size_in THEN Failed("AssertionError", h)
    ELSE Built(h, Node(Len(h) + 1, "Add", h[A].size_in, h[B.val].size_out,
                       <<A>>, <<B.val>>, Absent, 0, Absent))

\* Add.__init__; B.size_in of anything but a LinearMap is an AttributeError
Add_init(h, A, B) ==
    IF B.kind # "LinearMap" THEN Failed("AttributeError", h)
    ELSE IF h[A].size_in # h[B.val].size_in THEN Failed("AssertionError", h)
    ELSE IF h[A].size_out # h[B.val].size_out THEN Failed("AssertionError", h)
    ELSE Built(h, Node(Len(h) + 1, "Add", h[A].size_in, h[B.val].size_out,
                       <<A>>, <<B.val>>, Absent, 0, Absent))

\* Multiply.__init__
Multiply_init(h, A, a) ==
    Built(h, Node(Len(h) + 1, "Multiply", h[A].size_in, h[A].size_out,
                  <<A>>, <<>>, a, 0, Absent))

\* Matmul.__init__
Matmul_init(h, A, B) ==
    IF h[B].size_out # h[A].size_in THEN Failed("AssertionError", h)
    ELSE Built(h, Node(Len(h) + 1, "Matmul", h[B].size_in, h[A].size_out,
                       <<A>>, <<B>>, Absent, 0, Absent))

\* BlockDiagonal.__init__; A[0] of an empty list is an IndexError
BlockDiagonal_init(h, A) ==
    LET nz == Len(A)
    IN IF \E i \in 1..(nz - 1) : h[A[i]].size_in # h[A[i + 1]].size_in
       THEN Failed("AssertionError", h)
       ELSE IF \E i \in 1..(nz - 1) : h[A[i]].size_out # h[A[i + 1]].size_out
       THEN Failed("AssertionError", h)
       ELSE IF nz = 0 THEN Failed("IndexError", h)
       ELSE Built(h, Node(Len(h) + 1, "BlockDiagonal", h[A[1]].size_in \o <<nz>>,
                          h[A[1]].size_out \o <<nz>>, A, <<>>, Absent, 0, Absent))

\* Kron.__init__
Kron_init(h, A, n) ==
    Built(h, Node(Len(h) + 1, "Kron", h[A].size_in \o <<n>>, h[A].size_out \o <<n>>,
                  <<A>>, <<>>, Absent, n, Absent))

(***************************************************************************)
(* Arithmetic.  An operator returns the exception it raised, the heap it   *)
(* leaves, what it returns and, where it applied a map, that call.         *)
(***************************************************************************)
OpRes(c) == [st |-> c.st, heap |-> c.heap, ret |-> c.ret, ev |-> Ok(NoArr, <<>>)]

Returned(h, v) == [st |-> "ok", heap |-> h, ret |-> v, ev |-> Ok(NoArr, <<>>)]

\* the NotImplemented singleton
NotImplemented == PyObj("NotImplementedType", 0, <<>>, <<>>, "")

\* np.isscalar: Python numbers, and str and bytes as well
np_isscalar(other) == other.kind \in {"int", "float", "complex", "bool", "str", "bytes"}

\* LinearMap.__add__
LinearMap_add(h, self, other) == OpRes(Add_init(h, self, other))

\* LinearMap.__mul__ composing two maps the other way round
LinearMap_mul_swapped(h, self, other) ==
    IF np_isscalar(other) THEN OpRes(Multiply_init(h, self, other))
    ELSE IF other.kind = "LinearMap" THEN OpRes(Matmul_init(h, other.val, self))
    ELSE IF other.kind = "Tensor"
    THEN IF other.shape = <<>> THEN OpRes(Multiply_init(h, self, other))
         ELSE LET r == apply(h, h[self], Arr(other.shape, other.data), 0)
              IN [st |-> r.st, heap |-> h, ev |-> r,
                  ret |-> IF r.st = "ok" THEN Tensor(r.val.shape, r.val.data) ELSE Absent]
    ELSE OpRes(Failed("NotImplementedError", h))

\* LinearMap.__mul__
LinearMap_mul(h, self, other) ==
    IF np_isscalar(other) THEN OpRes(Multiply_init(h, self, other))
    ELSE IF other.kind = "LinearMap" THEN OpRes(Matmul_init(h, self, other.val))
    ELSE IF other.kind = "Tensor"
    THEN IF other.shape = <<>> THEN OpRes(Multiply_init(h, self, other))
         ELSE LET r == apply(h, h[self], Arr(other.shape, other.data), 0)
              IN [st |-> r.st, heap |-> h, ev |-> r,
                  ret |-> IF r.st = "ok" THEN Tensor(r.val.shape, r.val.data) ELSE Absent]
    ELSE OpRes(Failed("NotImplementedError", h))

\* LinearMap.__rmul__
LinearMap_rmul(h, self, other) ==
    IF np_isscalar(other) THEN OpRes(Multiply_init(h, self, other))
    ELSE IF other.kind = "Tensor" /\ other.shape = <<>>
    THEN OpRes(Multiply_init(h, self, other))
    ELSE Returned(h, NotImplemented)

\* other * self where other's own __mul__ does not take a LinearMap: the
\* interpreter calls self.__rmul__(other), and raises TypeError when that
\* returns NotImplemented
ReflectedMul(h, self, other) ==
    LET r == LinearMap_rmul(h, self, other)
    IN IF r.ret = NotImplemented THEN OpRes(Failed("TypeError", h)) ELSE r

\* LinearMap.__neg__: -1 * self, which int.__mul__ leaves to self.__rmul__
LinearMap_neg(h, self) == ReflectedMul(h, self, PyInt(-1))

\* -other, for the right operand of a subtraction
Negated(h, other) ==
    CASE other.kind = "LinearMap" -> LinearMap_neg(h, other.val)
      [] other.kind = "int" -> Returned(h, PyInt(-other.val))
      [] other.kind = "Tensor" ->
            Returned(h, Tensor(other.shape, [i \in 1..Len(other.data) |-> -other.data[i]]))
      [] OTHER -> OpRes(Failed("TypeError", h))

\* LinearMap.__sub__: self.__add__(-other)
LinearMap_sub(h, self, other) ==
    LET m == Negated(h, other)
    IN IF m.st # "ok" THEN m ELSE LinearMap_add(m.heap, self, m.ret)

\* a tensor or module moved by .to(target)
Moved(v, target) == [v EXCEPT !.device = target]

\* the test of LinearMap.to on one attribute's value
IsMovable(v) == v.kind = "Tensor" \/ v.kind = "Module"

\* LinearMap.to moving the children as well
RECURSIVE LinearMap_to_children(_, _, _)
LinearMap_to_children(h, self, target) ==
    LET own == [h EXCEPT ![self] =
                   [h[self] EXCEPT !.a = IF IsMovable(@) THEN Moved(@, target) ELSE @,
                                   !.op = IF IsMovable(@) THEN Moved(@, target) ELSE @]]
        kids == h[self].A \o h[self].B
        walk[k \in 0..Len(kids)] ==
            IF k = 0 THEN own ELSE LinearMap_to_children(walk[k - 1], kids[k], target)
    IN walk[Len(kids)]

\* LinearMap.to: every attribute of self that is a tensor or a module is
\* replaced by its .to(...); size_in and size_out are lists, A and B are
\* LinearMaps or a list of them, n is an int
LinearMap_to(h, self, target) ==
    [h EXCEPT ![self] =
        [h[self] EXCEPT !.a = IF IsMovable(@) THEN Moved(@, target) ELSE @,
                        !.op = IF IsMovable(@) THEN Moved(@, target) ELSE @]]

(***************************************************************************)
(* The program: leaf operators exist, and the caller combines, applies and *)
(* moves them.  last is the latest call: what was called on which node     *)
(* with which argument, how many nodes there were before it, and what came *)
(* of it.                                                                  *)
(***************************************************************************)
Rec(op, self, arg, h0, h1, st, ret, ev) ==
    [op |-> op, self |-> self, arg |-> arg, n0 |-> Len(h0), changed |-> h1 # h0,
     st |-> st, ret |-> ret, val |-> ev.val, tr |-> ev.tr, msg |-> ev.msg]

\* a square leaf holding its matrix as a tensor, a leaf from shape [2] to
\* shape [1] holding it in a module, and a LinearMap that overrides nothing
Leaves ==
    << Leaf(1, <<2>>, <<2>>, LeafOp("Tensor", << <<1, 2>>, <<0, 1>> >>)),
       Leaf(2, <<2>>, <<1>>, LeafOp("Module", << <<1, -1>> >>)),
       Leaf(3, <<1>>, <<2>>, Absent) >>

Init ==
    /\ heap = Leaves
    /\ last = Rec("init", 0, Absent, <<>>, Leaves, "ok", Absent, Ok(NoArr, <<>>))

Ids == 1..Len(heap)

\* tensors handed to a node: of its own shapes and of shapes one step off
Fill(shape, s) == Arr(shape, [i \in 1..Numel(shape) |-> s * i])

Grow(s) == IF s = <<>> THEN <<1>> ELSE [s EXCEPT ![Len(s)] = @ + 1]

Shrink(s) == IF s = <<>> THEN <<>> ELSE [s EXCEPT ![Len(s)] = @ - 1]

ShapesNear(s) == {s, Grow(s), Shrink(s), Front(s)}

\* arguments of apply: of shape size_in with two fillings, and of the shapes
\* near it and of shape size_out
InputsFor(nd) ==
    {Fill(nd.size_in, v) : v \in {1, -2}}
        \cup {Fill(s, 1) : s \in ShapesNear(nd.size_in) \cup {nd.size_out}}

\* arguments of adjoint: the same with size_out and size_in exchanged
OutputsFor(nd) == InputsFor(H(nd))

\* what an operator may meet on its other side
Numbers == {PyInt(3), Tensor(<<>>, <<2>>)}

Maps == {MapRef(j) : j \in Ids}

Others == {PyStr, PyList, PyNone}

Tensors(i) ==
    {Tensor(x.shape, x.data) : x \in {Fill(s, 1) : s \in {heap[i].size_in, Grow(heap[i].size_in)}}}

Operands(i) == Maps \cup Numbers \cup Others \cup Tensors(i)

\* the lists of 0 to n elements of S
RECURSIVE SeqsUpTo(_, _)
SeqsUpTo(S, n) ==
    IF n = 0 THEN {<<>>}
    ELSE LET T == SeqsUpTo(S, n - 1)
         IN T \cup {Append(t, e) : t \in {u \in T : Len(u) = n - 1}, e \in S}

\* What a call does depends on the heap alone, and every heap is first
\* reached by the call that made it: calls are explored from those states.
Fresh == last.changed

Range(f) == {f[i] : i \in DOMAIN f}

\* The heap holds the leaves and one expression under construction: a call
\* that adds nodes uses the newest node when that is not a leaf.
OneExpression(h0, h1) ==
    \/ Len(h1) = Len(h0)
    \/ h0[Len(h0)].kind = "Leaf"
    \/ \E j \in (Len(h0) + 1)..Len(h1) : Len(h0) \in Range(h1[j].A) \cup Range(h1[j].B)

Finish(op, self, arg, r) ==
    /\ Len(r.heap) <= MaxNodes
    /\ OneExpression(heap, r.heap)
    /\ heap' = r.heap
    /\ last' = Rec(op, self, arg, heap, r.heap, r.st, r.ret, r.ev)

Applied(op, i, x, r) ==
    Finish(op, i, Tensor(x.shape, x.data), [st |-> r.st, heap |-> heap, ret |-> Absent, ev |-> r])

\* A.apply(x), A(x), A.adjoint(x)
DoApply(i, x) == Applied("apply", i, x, apply(heap, heap[i], x, 0))

DoCall(i, x) == Applied("call", i, x, LinearMap_call(heap, heap[i], x, 0))

DoAdjoint(i, x) == Applied("adjoint", i, x, adjoint(heap, heap[i], x, 0))

\* A.H.apply(x), A.H.adjoint(x)
DoApplyH(i, x) == Applied("H.apply", i, x, apply(heap, H(heap[i]), x, 0))

DoAdjointH(i, x) == Applied("H.adjoint", i, x, adjoint(heap, H(heap[i]), x, 0))

\* A.H, kept by the caller
GetH(i) ==
    Finish("H", i, Absent, Returned(Append(heap, ConjTranspose_init(Len(heap) + 1, heap[i])),
                                    MapRef(Len(heap) + 1)))

\* BlockDiagonal(A), Kron(A, n)
NewBlockDiagonal(A) ==
    Finish("BlockDiagonal", 0, PyObj("list", 0, <<>>, A, ""), OpRes(BlockDiagonal_init(heap, A)))

NewKron(i, n) == Finish("Kron", i, PyInt(n), OpRes(Kron_init(heap, i, n)))

\* A + other, A - other, A * other, other * A, -A
OpAdd(i, other) == Finish("add", i, other, LinearMap_add(heap, i, other))

OpSub(i, other) == Finish("sub", i, other, LinearMap_sub(heap, i, other))

OpMul(i, other) == Finish("mul", i, other, LinearMap_mul(heap, i, other))

OpRmul(i, other) == Finish("rmul", i, other, ReflectedMul(heap, i, other))

OpNeg(i) == Finish("neg", i, Absent, LinearMap_neg(heap, i))

\* A.to(target)
Targets == {"cpu", "cuda"}

DoTo(i, target) ==
    Finish("to", i, PyObj("device", 0, <<>>, <<>>, target),
           Returned(LinearMap_to(heap, i, target), PyNone))

\* Expressions are built and applied.
Next ==
    \/ Fresh /\ \E i \in Ids : \E x \in InputsFor(heap[i]) : DoApply(i, x)
    \/ Fresh /\ \E i \in Ids : \E x \in InputsFor(heap[i]) : DoCall(i, x)
    \/ Fresh /\ \E i \in Ids : \E x \in OutputsFor(heap[i]) : DoAdjoint(i, x)
    \/ Fresh /\ \E i \in Ids : GetH(i)
    \/ Fresh /\ \E A \in SeqsUpTo(Ids, MaxRep) : NewBlockDiagonal(A)
    \/ Fresh /\ \E i \in Ids : \E n \in 1..MaxRep : NewKron(i, n)
    \/ Fresh /\ \E i \in Ids : \E other \in Maps : OpAdd(i, other)
    \/ Fresh /\ \E i \in Ids : \E other \in Maps \cup {PyInt(3)} : OpMul(i, other)

Spec == Init /\ [][Next]_vars

\* Expressions are built, and their transposes applied.
NextH ==
    \/ Fresh /\ \E i \in Ids : \E x \in OutputsFor(heap[i]) : DoApplyH(i, x)
    \/ Fresh /\ \E i \in Ids : \E x \in InputsFor(heap[i]) : DoAdjointH(i, x)
    \/ Fresh /\ \E i \in Ids : GetH(i)
    \/ Fresh /\ \E A \in SeqsUpTo(Ids, MaxRep) : NewBlockDiagonal(A)
    \/ Fresh /\ \E i \in Ids : \E n \in 1..MaxRep : NewKron(i, n)
    \/ Fresh /\ \E i \in Ids : \E other \in Maps : OpAdd(i, other)
    \/ Fresh /\ \E i \in Ids : \E other \in Maps \cup {PyInt(3)} : OpMul(i, other)

SpecH == Init /\ [][NextH]_vars

\* Expressions are built with the operators, whatever stands on the other side.
NextArith ==
    \/ Fresh /\ \E i \in Ids : GetH(i)
    \/ Fresh /\ \E A \in SeqsUpTo(Ids, MaxRep) : NewBlockDiagonal(A)
    \/ Fresh /\ \E i \in Ids : \E other \in Operands(i) : OpAdd(i, other)
    \/ Fresh /\ \E i \in Ids : \E other \in Operands(i) : OpSub(i, other)
    \/ Fresh /\ \E i \in Ids : \E other \in Operands(i) : OpMul(i, other)
    \/ Fresh /\ \E i \in Ids : \E other \in Operands(i) \ Maps : OpRmul(i, other)
    \/ Fresh /\ \E i \in Ids : OpNeg(i)

SpecArith == Init /\ [][NextArith]_vars

\* Expressions are built and moved between devices.
NextTo ==
    \/ Fresh /\ \E i \in Ids : GetH(i)
    \/ Fresh /\ \E i \in Ids : \E n \in 0..MaxRep : NewKron(i, n)
    \/ Fresh /\ \E i \in Ids : \E other \in Maps \cup Numbers \cup {PyStr} : OpMul(i, other)
    \/ Fresh /\ \E i \in Ids : \E target \in Targets : DoTo(i, target)

SpecTo == Init /\ [][NextTo]_vars

(***************************************************************************)
(* Properties.                                                             *)
(***************************************************************************)
\* the node the latest call was made on, and its argument as a tensor
Self == heap[last.self]

X == Arr(last.arg.shape, last.arg.data)

\* the calls of method m made at depth d, as (node, method) pairs
CallsAt(tr, d, m) ==
    LET Hit(e) == e.depth = d /\ e.m = m
        sel == SelectSeq(tr, Hit)
    IN [k \in 1..Len(sel) |-> <<sel[k].node, sel[k].m>>]

\* every leaf under node i supplies its rules and every Multiply under it
\* scales by a number
RECURSIVE Supplied(_, _)
Supplied(h, i) ==
    /\ h[i].kind = "Leaf" => h[i].op # Absent
    /\ h[i].kind = "Multiply" => CanScale(h[i].a)
    /\ \A j \in Range(h[i].A) \cup Range(h[i].B) : Supplied(h, j)

ShapeMismatch == "AssertionError"

UnsupportedOperand == {"NotImplementedError", "TypeError", "AttributeError"}

\* C1: apply(x) and node(x) with shape(x) # size_in fail with ShapeMismatch,
\* for every kind of node, before the forward rule or any child is called,
\* and return nothing.
C1_ApplyRejectsWrongShape ==
    (last.op \in {"apply", "call"} /\ X.shape # Self.size_in)
        => /\ last.st = ShapeMismatch
           /\ Len(last.tr) = 1
           /\ last.val = NoArr

\* C2: adjoint(x) with shape(x) # size_out fails with a ShapeMismatch that
\* reports size_out as the expected shape and shape(x) as the actual one,
\* before the adjoint rule is called.
C2_AdjointReportsSizeOut ==
    (last.op = "adjoint" /\ X.shape # Self.size_out)
        => /\ last.st = ShapeMismatch
           /\ last.msg.actual = X.shape
           /\ last.msg.reported = Self.size_out
           /\ Len(last.tr) = 1

\* C3: over any nesting of the combinators on leaves that supply their
\* rules, apply(x) with shape(x) = size_in returns a tensor of shape
\* size_out, and adjoint(y) with shape(y) = size_out one of shape size_in;
\* no assertion fails on the way.
C3_ShapeContract ==
    /\ (last.op \in {"apply", "call"} /\ X.shape = Self.size_in /\ Supplied(heap, last.self))
          => /\ last.st = "ok"
             /\ last.val.shape = Self.size_out
             /\ Len(last.val.data) = Numel(Self.size_out)
    /\ (last.op = "adjoint" /\ X.shape = Self.size_out /\ Supplied(heap, last.self))
          => /\ last.st = "ok"
             /\ last.val.shape = Self.size_in
             /\ Len(last.val.data) = Numel(Self.size_in)
    /\ (last.op \in {"apply", "call"} /\ X.shape = Self.size_in) => last.st # ShapeMismatch
    /\ (last.op = "adjoint" /\ X.shape = Self.size_out) => last.st # ShapeMismatch

C3_Witness ==
    /\ last.op = "apply" /\ last.st = "ok"
    /\ Self.kind = "Kron" /\ Self.n = MaxRep
    /\ heap[Self.A[1]].kind = "BlockDiagonal"

\* C4: Matmul(A, B).apply(x) is A.apply(B.apply(x)), calling B then A, and
\* Matmul(A, B).adjoint(y) is B.adjoint(A.adjoint(y)), calling A then B; each
\* child is called once.
C4_CompositionDuality ==
    LET A == heap[Self.A[1]]
        B == heap[Self.B[1]]
        fb == apply(heap, B, X, 0)
        fa == apply(heap, A, fb.val, 0)
        ga == adjoint(heap, A, X, 0)
        gb == adjoint(heap, B, ga.val, 0)
    IN /\ (last.op \in {"apply", "call"} /\ Self.kind = "Matmul" /\ X.shape = Self.size_in
              /\ fb.st = "ok" /\ fa.st = "ok")
          => /\ last.st = "ok"
             /\ last.val = fa.val
             /\ CallsAt(last.tr, 2, "apply") = << <<B.id, "apply">>, <<A.id, "apply">> >>
             /\ CallsAt(last.tr, 2, "adjoint") = <<>>
       /\ (last.op = "adjoint" /\ Self.kind = "Matmul" /\ X.shape = Self.size_out
              /\ ga.st = "ok" /\ gb.st = "ok")
          => /\ last.st = "ok"
             /\ last.val = gb.val
             /\ CallsAt(last.tr, 4, "adjoint") = << <<A.id, "adjoint">>, <<B.id, "adjoint">> >>
             /\ CallsAt(last.tr, 4, "apply") = <<>>

C4_Witness ==
    /\ last.op = "adjoint" /\ last.st = "ok"
    /\ Self.kind = "Matmul" /\ Self.A # Self.B
    /\ heap[Self.B[1]].kind # "Leaf"

\* C5: with A the node under a ConjTranspose C, C.H.apply(x) is A.apply(x)
\* and C.H.adjoint(y) is A.adjoint(y) for x of shape size_in(A) and y of
\* shape size_out(A), C.H has A's size_in and size_out, and taking A.H leaves
\* every node as it was and holds A by reference.
C5_Step ==
    LET C == heap'[last'.self]
        A == heap'[C.A[1]]
        x == Arr(last'.arg.shape, last'.arg.data)
    IN /\ (last'.op = "H.apply" /\ C.kind = "ConjTranspose" /\ x.shape = A.size_in)
          => /\ last'.st = apply(heap', A, x, 0).st
             /\ last'.val = apply(heap', A, x, 0).val
             /\ H(C).size_in = A.size_in /\ H(C).size_out = A.size_out
       /\ (last'.op = "H.adjoint" /\ C.kind = "ConjTranspose" /\ x.shape = A.size_out)
          => /\ last'.st = adjoint(heap', A, x, 0).st
             /\ last'.val = adjoint(heap', A, x, 0).val
       /\ last'.op = "H"
          => /\ SubSeq(heap', 1, Len(heap)) = heap
             /\ Len(heap') = Len(heap) + 1
             /\ heap'[Len(heap')].A = <<last'.self>>
             /\ heap'[Len(heap')].size_in = heap[last'.self].size_out
             /\ heap'[Len(heap')].size_out = heap[last'.self].size_in

C5_DoubleTranspose == [][C5_Step]_vars

C5_Witness ==
    /\ last.op = "H.apply" /\ last.st = "ok"
    /\ Self.kind = "ConjTranspose"
    /\ heap[Self.A[1]].kind = "Kron"
    /\ X.shape = heap[Self.A[1]].size_in

\* the node a call has just made, and the one before it
Made == heap[Len(heap)]

MadeBefore == heap[Len(heap) - 1]

\* C6: Add(A, B) with differing size_in or size_out, Matmul(A, B) with
\* size_out(B) # size_in(A) and BlockDiagonal over a list in which two maps
\* differ in size_in or size_out fail with ShapeMismatch, make no node and
\* leave every node as it was.
C6_ConstructionValidation ==
    LET other == heap[last.arg.val]
        A == last.arg.data
    IN /\ (last.op = "add" /\ last.arg.kind = "LinearMap"
              /\ (Self.size_in # other.size_in \/ Self.size_out # other.size_out))
          => (last.st = ShapeMismatch /\ ~last.changed)
       /\ (last.op = "mul" /\ last.arg.kind = "LinearMap" /\ other.size_out # Self.size_in)
          => (last.st = ShapeMismatch /\ ~last.changed)
       /\ (last.op = "BlockDiagonal"
              /\ \E i, j \in 1..Len(A) : \/ heap[A[i]].size_in # heap[A[j]].size_in
                                         \/ heap[A[i]].size_out # heap[A[j]].size_out)
          => (last.st = ShapeMismatch /\ ~last.changed)

C6_Witness ==
    /\ last.op = "BlockDiagonal" /\ last.st = ShapeMismatch
    /\ Len(last.arg.data) = MaxRep
    /\ heap[last.arg.data[1]].size_in = heap[last.arg.data[2]].size_in
    /\ heap[last.arg.data[1]].size_out # heap[last.arg.data[2]].size_out

\* C7: map + map makes Add(self, other); map - map makes Multiply(other, -1)
\* and then Add(self, that); -map makes Multiply(self, -1); map * number,
\* number * map, map * 0-dimensional tensor and 0-dimensional tensor * map
\* make Multiply(self, other); map * map makes Matmul(self, other); map *
\* tensor with an axis makes no node and is apply(tensor).
C7_ArithmeticDispatch ==
    LET n == last.n0
        i == last.self
        other == last.arg
        grown == Len(heap) = n + 1 /\ last.ret = MapRef(n + 1)
    IN /\ (last.op = "add" /\ other.kind = "LinearMap" /\ last.st = "ok")
          => /\ grown
             /\ Made = Node(n + 1, "Add", Self.size_in, Self.size_out,
                            <<i>>, <<other.val>>, Absent, 0, Absent)
       /\ (last.op = "sub" /\ other.kind = "LinearMap" /\ last.st = "ok")
          => /\ Len(heap) = n + 2 /\ last.ret = MapRef(n + 2)
             /\ MadeBefore = Node(n + 1, "Multiply", heap[other.val].size_in,
                                  heap[other.val].size_out, <<other.val>>, <<>>,
                                  PyInt(-1), 0, Absent)
             /\ Made = Node(n + 2, "Add", Self.size_in, Self.size_out,
                            <<i>>, <<n + 1>>, Absent, 0, Absent)
       /\ last.op = "neg"
          => /\ last.st = "ok" /\ grown
             /\ Made = Node(n + 1, "Multiply", Self.size_in, Self.size_out,
                            <<i>>, <<>>, PyInt(-1), 0, Absent)
       /\ (last.op \in {"mul", "rmul"}
              /\ (other.kind = "int" \/ (other.kind = "Tensor" /\ other.shape = <<>>)))
          => /\ last.st = "ok" /\ grown
             /\ Made = Node(n + 1, "Multiply", Self.size_in, Self.size_out,
                            <<i>>, <<>>, other, 0, Absent)
       /\ (last.op = "mul" /\ other.kind = "LinearMap" /\ last.st = "ok")
          => /\ grown
             /\ Made = Node(n + 1, "Matmul", heap[other.val].size_in, Self.size_out,
                            <<i>>, <<other.val>>, Absent, 0, Absent)
       /\ (last.op = "mul" /\ other.kind = "Tensor" /\ other.shape # <<>>)
          => /\ ~last.changed
             /\ last.st = apply(heap, Self, X, 0).st
             /\ last.val = apply(heap, Self, X, 0).val
             /\ last.st = "ok" => last.ret = Tensor(last.val.shape, last.val.data)

C7_Witness ==
    /\ last.op = "sub" /\ last.st = "ok" /\ last.arg.kind = "LinearMap"
    /\ Made.kind = "Add" /\ MadeBefore.kind = "Multiply"

\* C8: +, binary -, * and right-multiply with a str, a list or None on the
\* other side fail with UnsupportedOperand and make no node.
C8_UnsupportedOperand ==
    (last.op \in {"add", "sub", "mul", "rmul"} /\ last.arg.kind \in {"str", "list", "NoneType"})
        => (last.st \in UnsupportedOperand /\ ~last.changed)

C10_Step ==
    last'.op = "to"
        => LET i == last'.self
               target == last'.arg.device
               after(v) == IF v.kind \in {"Tensor", "Module"}
                           THEN [v EXCEPT !.device = target] ELSE v
           IN /\ Len(heap') = Len(heap)
              /\ \A j \in Ids \ {i} : heap'[j] = heap[j]
              /\ heap'[i] = [heap[i] EXCEPT !.a = after(heap[i].a), !.op = after(heap[i].op)]

C10_ShallowTransfer == [][C10_Step]_vars

C10_Witness ==
    /\ last.op = "to" /\ last.changed
    /\ Self.kind = "Multiply" /\ Self.a.kind = "Tensor" /\ Self.a.device = "cuda"
    /\ heap[Self.A[1]].kind = "Multiply"
    /\ heap[Self.A[1]].a.kind = "Tensor" /\ heap[Self.A[1]].a.device = "cpu"

====
